---- MODULE Spec2Model ----
(***************************************************************************)
(* Model of the BAST flash translation layer of src/FTLs/bast_ftl.cpp:     *)
(* the block map (data_list), the log map (log_map), the read, write and   *)
(* trim handlers, log block allocation/eviction, the sequential switch and *)
(* the random merge.  The flash array, the block manager and the           *)
(* statistics are the collaborators the handlers call into; they are       *)
(* modelled from their contract (section 6 of the specification).          *)
(***************************************************************************)
EXTENDS Integers, Sequences, FiniteSets, TLC

\* ------------------------------------------------------------------ bounds
\* Number of logical blocks of the drive (entries of data_list).
NumLogical == 3
\* Number of physical blocks the block manager hands out (block 0 is never
\* handed out: linear address 0 is the unmapped sentinel of read).
NumPhysical == 6
\* Number of host requests of a run (numMemoryRead counts them).
MaxOps == 5

\* (BLOCK_SIZE, BAST_LOG_PAGE_LIMIT) of the runs with arbitrary requests.
Configs == {<<2, 2>>}
\* (BLOCK_SIZE, BAST_LOG_PAGE_LIMIT, numBlocks) of the runs with arbitrary
\* requests to one logical block of four pages.
WideConfigs == {<<4, 1, 1>>}
\* (BLOCK_SIZE, BAST_LOG_PAGE_LIMIT) of the concrete scenario.
ScenarioConfigs == {<<4, 1>>, <<2, 1>>}
\* Block sizes the constructor is run with.
CtorBlockSizes == 1..8

VARIABLES
    BLOCK_SIZE,           \* pages per block (configuration)
    BAST_LOG_PAGE_LIMIT,  \* capacity of log_map (configuration)
    numBlocks,            \* SSD_SIZE * PACKAGE_SIZE * DIE_SIZE * PLANE_SIZE
    pc,                   \* position of the constructor, "ready" once built
    size,                 \* loop variable of the constructor's two loops
    addressShift,
    addressSize,
    log_map,              \* lba -> LogPageBlock, for the lbas that have one
    data_list,            \* lba -> linear address of the data block, or -1
    flash,                \* pages and blocks of the flash array, block pool
    stats,                \* controller.stats
    event,                \* the last request and the address it resolved to
    host,                 \* la -> number of host writes to la so far
    trimmed,              \* las trimmed since they were last written
    log_order,            \* lbas of log_map in the order they were inserted
    obs,                  \* what the last request did
    script                \* scripted requests still to be issued

vars == <<BLOCK_SIZE, BAST_LOG_PAGE_LIMIT, numBlocks, pc, size, addressShift,
          addressSize, log_map, data_list, flash, stats, event, host,
          trimmed, log_order, obs, script>>

cfgvars == <<BLOCK_SIZE, BAST_LOG_PAGE_LIMIT, numBlocks, addressShift,
             addressSize, pc, size>>

\* ------------------------------------------------------------- arithmetic
RECURSIVE Pow2(_)
Pow2(n) == IF n <= 0 THEN 1 ELSE 2 * Pow2(n - 1)

Min(S) == CHOOSE x \in S : \A y \in S : x <= y

\* Number of iterations of "for (size = n; size > 0; k++) size /= 2".
RECURSIVE Halvings(_)
Halvings(n) == IF n > 0 THEN 1 + Halvings(n \div 2) ELSE 0

IsPowerOfTwo(n) == \E k \in 0..n : Pow2(k) = n

\* ---------------------------------------------------------------- addresses
Lbas == 0..(numBlocks - 1)
LogicalAddresses == 0..(numBlocks * BLOCK_SIZE - 1)
Offsets == 0..(BLOCK_SIZE - 1)
PhysBlocks == 0..NumPhysical
PhysPages == 0..((NumPhysical + 1) * BLOCK_SIZE - 1)

\* event.get_logical_address() >> addressShift
LbaOf(la) == la \div Pow2(addressShift)
\* Address(event.get_logical_address(), PAGE).page
PageOf(la) == la % BLOCK_SIZE
\* The physical block a linear address lies in.
BlockOf(addr) == addr \div BLOCK_SIZE

\* Address(0, PAGE): what read resolves an unmapped page to.
Unmapped == 0

\* LogPageBlock::LogPageBlock: every slot unset.
LogPageBlock(addr) == [address |-> addr, pages |-> [i \in Offsets |-> -1]]

\* ------------------------------------------------------------ flash array
NoData == <<>>

EmptyFlash ==
    [state |-> [p \in PhysPages |-> "EMPTY"],
     data |-> [p \in PhysPages |-> NoData],
     pages_valid |-> [k \in PhysBlocks |-> 0],
     pages_invalid |-> [k \in PhysBlocks |-> 0],
     pool |-> [k \in PhysBlocks |-> IF k = 0 THEN "RESERVED" ELSE "FREE"]]

\* controller.get_state(address)
get_state(fl, addr) == fl.state[addr]

\* controller.get_num_valid(&address): pages programmed since the erase.
get_num_valid(fl, addr) == fl.pages_valid[BlockOf(addr)]

\* Block::get_state() == INACTIVE: every page of the block is invalid.
Inactive(fl, addr) == fl.pages_invalid[BlockOf(addr)] >= BLOCK_SIZE

\* controller.get_free_page(address): the first empty page of the block;
\* the address is left as it is when the block has none.
get_free_page(fl, addr) ==
    LET k == BlockOf(addr)
        free == {i \in Offsets : fl.state[k * BLOCK_SIZE + i] = "EMPTY"}
    IN  IF free = {} THEN addr ELSE k * BLOCK_SIZE + Min(free)

\* controller.issue of a write event: the page is programmed.
IssueWrite(fl, addr, payload) ==
    [fl EXCEPT !.state[addr] = "VALID",
               !.data[addr] = payload,
               !.pages_valid[BlockOf(addr)] = @ + 1]

\* Block::invalidate_page
invalidate_page(fl, addr) ==
    IF fl.state[addr] = "INVALID" THEN fl
    ELSE [fl EXCEPT !.state[addr] = "INVALID",
                    !.pages_invalid[BlockOf(addr)] = @ + 1]

\* The erase of a whole block.
Erase(fl, k) ==
    [fl EXCEPT !.state = [p \in PhysPages |->
                            IF BlockOf(p) = k THEN "EMPTY" ELSE fl.state[p]],
               !.data = [p \in PhysPages |->
                            IF BlockOf(p) = k THEN NoData ELSE fl.data[p]],
               !.pages_valid[k] = 0,
               !.pages_invalid[k] = 0]

\* manager.invalidate(address, type): the block is queued for reclamation.
invalidate(fl, addr) == [fl EXCEPT !.pool[BlockOf(addr)] = "INVALID"]

\* manager.erase_and_invalidate(event, address, type): erased at once and
\* returned to the free pool.
erase_and_invalidate(fl, addr) ==
    [Erase(fl, BlockOf(addr)) EXCEPT !.pool[BlockOf(addr)] = "FREE"]

\* The block manager.get_free_block hands out: a free block if there is one,
\* else a block queued for reclamation; 0 when the pool is exhausted.
FreeBlock(fl) ==
    LET free == {k \in PhysBlocks : fl.pool[k] = "FREE"}
        queued == {k \in PhysBlocks : fl.pool[k] = "INVALID"}
    IN  IF free # {} THEN Min(free)
        ELSE IF queued # {} THEN Min(queued)
        ELSE 0

\* manager.get_free_block(type): the flash after the block is handed out
\* (a reclaimed block is erased first).
get_free_block(fl) ==
    LET k == FreeBlock(fl)
    IN  IF k = 0 THEN fl
        ELSE [(IF fl.pool[k] = "INVALID" THEN Erase(fl, k) ELSE fl)
                EXCEPT !.pool[k] = "USED"]

\* -------------------------------------------------- the translation engine
\* The operators below take and return the engine's state as a record s:
\* log_map, data_list, flash, stats, log_order and obs are the variables of
\* the same names, ret is the value the function returns, and oom says that
\* the block pool was exhausted (fatal to the request).
State ==
    [log_map |-> log_map, data_list |-> data_list, flash |-> flash,
     stats |-> stats, log_order |-> log_order, obs |-> obs,
     ret |-> FALSE, oom |-> FALSE]

NoObs ==
    [op |-> "none", la |-> -1, payload |-> 0,
     full |-> FALSE,        \* the write found its log block full
     alloc |-> FALSE,       \* allocate_new_logblock was called
     pre_size |-> 0,        \* size of log_map when it was entered
     removed |-> {},        \* lbas it removed before inserting
     oldest |-> -1,         \* the lba inserted earliest, at that moment
     merge_lba |-> -1,      \* the logical block merged by the request
     merge_kind |-> "none", \* "switch" or "random"
     pairs |-> 0,           \* read+write pairs the merge issued
     wrote |-> -1,          \* the page the host write was issued to
     stale |-> FALSE]       \* the write went through the disposed log block

\* log_map.erase(lba); delete logBlock
dispose_logblock(s, lba) ==
    [s EXCEPT !.log_map = [k \in (DOMAIN s.log_map) \ {lba} |-> s.log_map[k]],
              !.log_order = SelectSeq(s.log_order, LAMBDA k : k # lba)]

\* Variant of isSequential: the loop compares with i + 1.
isSequential_OffByOne(logBlock) == \A i \in Offsets : logBlock.pages[i] = i + 1

\* The loop of is_sequential: pages[i] == i for every i.
isSequential(logBlock) == \A i \in Offsets : logBlock.pages[i] = i

\* Variant of Switch: data_list[lba] is not set to the log block.
Switch_NoMapUpdate(s, lba) ==
    dispose_logblock(
        [s EXCEPT !.flash = IF s.data_list[lba] # -1
                            THEN invalidate(s.flash, s.data_list[lba])
                            ELSE s.flash,
                  !.stats.numLogMergeSwitch = @ + 1,
                  !.obs.merge_lba = lba,
                  !.obs.merge_kind = "switch",
                  !.ret = TRUE],
        lba)

\* Variant of Switch: the old data block is not invalidated.
Switch_NoInvalidate(s, lba) ==
    dispose_logblock(
        [s EXCEPT !.data_list[lba] = s.log_map[lba].address,
                  !.stats.numLogMergeSwitch = @ + 1,
                  !.obs.merge_lba = lba,
                  !.obs.merge_kind = "switch",
                  !.ret = TRUE],
        lba)

\* The body of "if (isSequential)": the log block becomes the data block.
Switch(s, lba) ==
    dispose_logblock(
        [s EXCEPT !.flash = IF s.data_list[lba] # -1
                            THEN invalidate(s.flash, s.data_list[lba])
                            ELSE s.flash,
                  !.data_list[lba] = s.log_map[lba].address,
                  !.stats.numLogMergeSwitch = @ + 1,
                  !.obs.merge_lba = lba,
                  !.obs.merge_kind = "switch",
                  !.ret = TRUE],
        lba)

\* is_sequential(logBlock, lba, event): the log block switch.
is_sequential(s, lba) ==
    IF isSequential(s.log_map[lba]) THEN Switch(s, lba)
    ELSE [s EXCEPT !.ret = FALSE]

\* The page random_merge reads for offset i, -1 when it skips the offset
\* ("Empty page").  la is the logical address of the triggering event.
readAddress(s, lba, la, i) ==
    IF s.log_map[lba].pages[PageOf(la)] # -1
    THEN s.log_map[lba].address + s.log_map[lba].pages[i]
    ELSE IF s.data_list[lba] # -1
    THEN s.data_list[lba] + i
    ELSE -1

\* One read event with its chained write event: page src is copied to dst.
CopyPage(s, src, dst) ==
    [s EXCEPT !.flash = IssueWrite(s.flash, dst, s.flash.data[src]),
              !.stats.numFTLRead = @ + 1,
              !.stats.numFTLWrite = @ + 1,
              !.obs.pairs = @ + 1]

\* The for loop of random_merge from offset i on.
RECURSIVE MergeLoop(_, _, _, _, _)
MergeLoop(s, lba, la, newDataBlock, i) ==
    IF i >= BLOCK_SIZE THEN s
    ELSE IF \/ readAddress(s, lba, la, i) = -1
            \/ get_state(s.flash, readAddress(s, lba, la, i)) = "INVALID"
    THEN MergeLoop(s, lba, la, newDataBlock, i + 1)
    ELSE MergeLoop(CopyPage(s, readAddress(s, lba, la, i), newDataBlock + i),
                   lba, la, newDataBlock, i + 1)

\* random_merge after its loop: the log block and the old data block are
\* invalidated, data_list is updated and the log block disposed.  s is the
\* state after the loop, logBlock and dataBlock the addresses of the merged
\* log block and of the old data block (-1 if none).
MergeFinish(s, lba, logBlock, dataBlock, newDataBlock) ==
    dispose_logblock(
        [s EXCEPT !.flash = IF dataBlock # -1
                            THEN invalidate(invalidate(s.flash, logBlock),
                                            dataBlock)
                            ELSE invalidate(s.flash, logBlock),
                  !.data_list[lba] = newDataBlock,
                  !.stats.numLogMergeFull = @ + 1,
                  !.obs.merge_lba = lba,
                  !.obs.merge_kind = "random",
                  !.ret = TRUE],
        lba)

\* Variant of random_merge: the loop starts at offset 1.
random_merge_FromOne(s, lba, la) ==
    IF FreeBlock(s.flash) = 0 THEN [s EXCEPT !.oom = TRUE]
    ELSE MergeFinish(
            MergeLoop([s EXCEPT !.flash = get_free_block(s.flash)],
                      lba, la, FreeBlock(s.flash) * BLOCK_SIZE, 1),
            lba, s.log_map[lba].address, s.data_list[lba],
            FreeBlock(s.flash) * BLOCK_SIZE)

\* random_merge(logBlock, lba, event)
random_merge(s, lba, la) ==
    IF FreeBlock(s.flash) = 0 THEN [s EXCEPT !.oom = TRUE]
    ELSE MergeFinish(
            MergeLoop([s EXCEPT !.flash = get_free_block(s.flash)],
                      lba, la, FreeBlock(s.flash) * BLOCK_SIZE, 0),
            lba, s.log_map[lba].address, s.data_list[lba],
            FreeBlock(s.flash) * BLOCK_SIZE)

\* What follows a call of is_sequential whose result is r:
\* if (!is_sequential(...)) random_merge(...);
OrRandomMerge(r, lba, la) == IF r.ret THEN r ELSE random_merge(r, lba, la)

Merge(s, lba, la) == OrRandomMerge(is_sequential(s, lba), lba, la)

\* (*log_map.begin()).first: the first key of the map.
Begin(m) == Min(DOMAIN m)

\* Variant of Evict: the limit is not looked at.
Evict_NoMerge(s, la) ==
    [s EXCEPT !.obs.alloc = TRUE,
              !.obs.pre_size = Cardinality(DOMAIN s.log_map)]

\* The first part of allocate_new_logblock: with the map at its limit, the
\* first entry is merged.
Evict(s, la) ==
    IF Cardinality(DOMAIN s.log_map) >= BAST_LOG_PAGE_LIMIT
    THEN Merge([s EXCEPT !.obs.alloc = TRUE,
                         !.obs.pre_size = Cardinality(DOMAIN s.log_map),
                         !.obs.oldest = Head(s.log_order)],
               Begin(s.log_map), la)
    ELSE [s EXCEPT !.obs.alloc = TRUE,
                   !.obs.pre_size = Cardinality(DOMAIN s.log_map)]

\* The second part: a new LogPageBlock on a free block is put into the map.
\* before is the set of keys the map had when the function was entered.
Insert(s, lba, before) ==
    IF s.oom \/ FreeBlock(s.flash) = 0 THEN [s EXCEPT !.oom = TRUE]
    ELSE [s EXCEPT
            !.flash = get_free_block(s.flash),
            !.log_map = (lba :> LogPageBlock(FreeBlock(s.flash) * BLOCK_SIZE))
                        @@ s.log_map,
            !.log_order = Append(SelectSeq(s.log_order, LAMBDA x : x # lba),
                                 lba),
            !.obs.removed = before \ (DOMAIN s.log_map)]

\* allocate_new_logblock(logBlock, lba, event)
allocate_new_logblock(s, lba, la) ==
    Insert(Evict(s, la), lba, DOMAIN s.log_map)

\* The address read resolves la to, before the check of the page's state.
Lookup(s, la) ==
    IF /\ LbaOf(la) \in DOMAIN s.log_map
       /\ s.log_map[LbaOf(la)].pages[PageOf(la)] # -1
    THEN s.log_map[LbaOf(la)].address + s.log_map[LbaOf(la)].pages[PageOf(la)]
    ELSE IF s.data_list[LbaOf(la)] = -1
    THEN Unmapped
    ELSE s.data_list[LbaOf(la)] + (la % BLOCK_SIZE)

\* The address read resolves la to (event.set_address in read).
ReadAddress(s, la) ==
    IF get_state(s.flash, Lookup(s, la)) = "INVALID" THEN Unmapped
    ELSE Lookup(s, la)

\* Variant of read: log_map[lookupBlock] without the find before it, which
\* puts an entry into the map when there is none.
read_InsertsEntry(s, la) ==
    [s EXCEPT !.log_map = s.log_map @@ (LbaOf(la) :> LogPageBlock(0)),
              !.stats.numMemoryRead = @ + 1,
              !.stats.numFTLRead = @ + 1,
              !.ret = ReadAddress(s, la),
              !.obs = [NoObs EXCEPT !.op = "read", !.la = la]]

\* FtlImpl_Bast::read
read(s, la) ==
    [s EXCEPT !.stats.numMemoryRead = @ + 1,
              !.stats.numFTLRead = @ + 1,
              !.ret = ReadAddress(s, la),
              !.obs = [NoObs EXCEPT !.op = "read", !.la = la]]

\* The end of the else branch of write.  logBlock still points to the
\* LogPageBlock that the merge deleted (allocate_new_logblock takes the
\* pointer by value): with reuse the new LogPageBlock lies where the deleted
\* one lay and the write goes to it, without reuse the deleted object still
\* reads as it was and the write goes to its block, of address old.
ThroughDangling(s, lba, la, reuse, old) ==
    IF s.oom THEN s
    ELSE IF reuse
    THEN [s EXCEPT !.log_map[lba].pages[PageOf(la)] = 0,
                   !.ret = s.log_map[lba].address]
    ELSE [s EXCEPT !.ret = old, !.obs.stale = TRUE]

\* allocate_new_logblock unless the pool was exhausted before.
ThenAllocate(s, lba, la) ==
    IF s.oom THEN s ELSE allocate_new_logblock(s, lba, la)

\* The else branch of write: the log block is full.
WriteFull(s, lba, la, reuse) ==
    ThroughDangling(
        ThenAllocate(Merge([s EXCEPT !.obs.full = TRUE], lba, la), lba, la),
        lba, la, reuse, s.log_map[lba].address)

\* Variant of WriteAppend: the slot is set to the number of set slots.
WriteAppend_CountsSetSlots(s, lba, la) ==
    [s EXCEPT !.log_map[lba].pages[PageOf(la)] =
                    Cardinality({i \in Offsets : s.log_map[lba].pages[i] # -1}),
              !.ret = get_free_page(s.flash, s.log_map[lba].address)]

\* Variant of WriteAppend: the slot is set to the logical page offset.
WriteAppend_SlotIsPage(s, lba, la) ==
    [s EXCEPT !.log_map[lba].pages[PageOf(la)] = PageOf(la),
              !.ret = get_free_page(s.flash, s.log_map[lba].address)]

\* The then branch of write: the page goes to the log block's next page.
WriteAppend(s, lba, la) ==
    [s EXCEPT !.log_map[lba].pages[PageOf(la)] =
                    get_num_valid(s.flash, s.log_map[lba].address),
              !.ret = get_free_page(s.flash, s.log_map[lba].address)]

\* write from "controller.stats.numMemoryRead++" to the end of the if.
WriteBranch(s, lba, la, reuse) ==
    IF s.oom THEN s
    ELSE IF get_num_valid(s.flash, s.log_map[lba].address) < BLOCK_SIZE
    THEN WriteAppend([s EXCEPT !.stats.numMemoryRead = @ + 1], lba, la)
    ELSE WriteFull([s EXCEPT !.stats.numMemoryRead = @ + 1], lba, la, reuse)

\* The start of write: a log block is allocated if lba has none.
WriteAllocate(s, lba, la) ==
    IF lba \notin DOMAIN s.log_map
    THEN allocate_new_logblock(s, lba, la) ELSE s

\* The end of write: the event is issued to the address in s.ret.
WriteIssue(s, la, payload) ==
    IF s.oom THEN s
    ELSE [s EXCEPT !.flash = IssueWrite(s.flash, s.ret, <<la, payload>>),
                   !.stats.numFTLWrite = @ + 1,
                   !.obs.wrote = s.ret]

\* FtlImpl_Bast::write
write(s, la, payload, reuse) ==
    WriteIssue(
        WriteBranch(
            WriteAllocate([s EXCEPT !.obs = [NoObs EXCEPT !.op = "write",
                                                          !.la = la,
                                                          !.payload = payload]],
                          LbaOf(la), la),
            LbaOf(la), la, reuse),
        la, payload)

\* Variant of ReclaimLog: the log block is never disposed by trim.
ReclaimLog_Never(s, lba, addr) == s

\* trim after a page at address addr of a log block was invalidated: a
\* block with every page invalid is erased and its log block disposed.
ReclaimLog(s, lba, addr) ==
    IF Inactive(s.flash, addr)
    THEN [dispose_logblock(s, lba)
            EXCEPT !.flash = erase_and_invalidate(s.flash, addr)]
    ELSE s

\* The log block part of trim.
TrimLog(s, lba, page) ==
    ReclaimLog(
        [s EXCEPT !.flash = invalidate_page(s.flash,
                      s.log_map[lba].address + s.log_map[lba].pages[page]),
                  !.log_map[lba].pages[page] = -1,
                  !.ret = s.log_map[lba].address + s.log_map[lba].pages[page]],
        lba, s.log_map[lba].address + s.log_map[lba].pages[page])

\* Variant of ReclaimData: the block's state is not looked at.
ReclaimData_Always(s, lba, addr) ==
    [s EXCEPT !.data_list[lba] = -1,
              !.flash = erase_and_invalidate(s.flash, addr)]

\* trim after the page at address addr of the data block was invalidated.
ReclaimData(s, lba, addr) ==
    IF Inactive(s.flash, addr)
    THEN [s EXCEPT !.data_list[lba] = -1,
                   !.flash = erase_and_invalidate(s.flash, addr)]
    ELSE s

\* The data block part of trim.
TrimData(s, lba, la) ==
    IF s.data_list[lba] # -1
    THEN ReclaimData(
            [s EXCEPT !.flash = invalidate_page(s.flash,
                          s.data_list[lba] + (la % BLOCK_SIZE))],
            lba, s.data_list[lba] + (la % BLOCK_SIZE))
    ELSE s

\* The two parts of trim, one after the other.
TrimBoth(s, lba, la) ==
    TrimData(IF /\ lba \in DOMAIN s.log_map
                /\ s.log_map[lba].pages[PageOf(la)] # -1
             THEN TrimLog(s, lba, PageOf(la)) ELSE s,
             lba, la)

\* FtlImpl_Bast::trim
trim(s, la) ==
    TrimBoth([s EXCEPT !.obs = [NoObs EXCEPT !.op = "trim", !.la = la],
                       !.stats.numMemoryRead = @ + 1,
                       !.stats.numFTLTrim = @ + 1,
                       !.ret = -1],
             LbaOf(la), la)

\* ------------------------------------------------------------ construction
EmptyMap == [k \in {} |-> 0]

NoStats ==
    [numMemoryRead |-> 0, numFTLRead |-> 0, numFTLWrite |-> 0,
     numFTLTrim |-> 0, numLogMergeSwitch |-> 0, numLogMergeFull |-> 0]

NoEvent == [type |-> "none", la |-> -1, address |-> -1]

\* The collaborators and the bookkeeping before the first request.
Fresh ==
    /\ log_map = EmptyMap
    /\ flash = EmptyFlash
    /\ stats = NoStats
    /\ event = NoEvent
    /\ host = [la \in LogicalAddresses |-> 0]
    /\ trimmed = {}
    /\ log_order = <<>>
    /\ obs = NoObs

\* The state FtlImpl_Bast::FtlImpl_Bast leaves for block size bs, log limit
\* limit and nb logical blocks.
Built(bs, limit, nb) ==
    /\ BLOCK_SIZE = bs
    /\ BAST_LOG_PAGE_LIMIT = limit
    /\ numBlocks = nb
    /\ pc = "ready"
    /\ size = 0
    /\ addressShift = Halvings(bs \div 2)
    /\ addressSize = Halvings(nb * 4)
    /\ data_list = [i \in 0..(nb - 1) |-> -1]
    /\ Fresh

Init ==
    /\ \E c \in Configs : Built(c[1], c[2], NumLogical)
    /\ script = <<>>

\* ------------------------------------------------------------------ requests
Commit(r, type, la) ==
    /\ ~r.oom
    /\ log_map' = r.log_map
    /\ data_list' = r.data_list
    /\ flash' = r.flash
    /\ stats' = r.stats
    /\ log_order' = r.log_order
    /\ obs' = r.obs
    /\ event' = [type |-> type, la |-> la, address |-> r.ret]
    /\ UNCHANGED cfgvars

Ready == pc = "ready" /\ stats.numMemoryRead < MaxOps

Read(la) ==
    /\ Ready
    /\ Commit(read(State, la), "read", la)
    /\ UNCHANGED <<host, trimmed, script>>

\* The payload of a host write.  The engine never looks into a payload, so
\* every write carries a payload of its own: the number of the write to its
\* logical address.
Payload(la) == host[la] + 1

\* A host write of la, with the ghost record of it.
WriteRequest(la, reuse) ==
    /\ Commit(write(State, la, Payload(la), reuse), "write", la)
    /\ host' = [host EXCEPT ![la] = Payload(la)]
    /\ trimmed' = trimmed \ {la}

Write(la, reuse) ==
    /\ Ready
    /\ WriteRequest(la, reuse)
    /\ UNCHANGED script

Trim(la) ==
    /\ Ready
    /\ Commit(trim(State, la), "trim", la)
    /\ trimmed' = trimmed \cup {la}
    /\ UNCHANGED <<host, script>>

\* Whether write(la) takes the branch in which the outcome depends on where
\* the new LogPageBlock is placed.
Full(la) ==
    /\ LbaOf(la) \in DOMAIN log_map
    /\ get_num_valid(flash, log_map[LbaOf(la)].address) >= BLOCK_SIZE

Reuses(la) == IF Full(la) THEN BOOLEAN ELSE {TRUE}

DoRead == \E la \in LogicalAddresses : Read(la)

DoWrite ==
    \E la \in LogicalAddresses : \E reuse \in Reuses(la) : Write(la, reuse)

DoTrim == \E la \in LogicalAddresses : Trim(la)

Next == DoRead \/ DoWrite \/ DoTrim

Spec == Init /\ [][Next]_vars

\* Arbitrary requests to a drive of wider blocks.
WideInit ==
    /\ \E c \in WideConfigs : Built(c[1], c[2], c[3])
    /\ script = <<>>

WideSpec == WideInit /\ [][Next]_vars

\* ------------------------------------------------------------ the scenario
\* The offsets 0 .. bs-1 in ascending order.
Ascending(bs) == [i \in 1..bs |-> i - 1]

\* The offsets written after the ascending pass: 1, then 0, 2, .. bs-1.
Shuffled(bs) == <<1, 0>> \o [i \in 1..(bs - 2) |-> i + 1]

\* The logical addresses the scenario writes to block b, in order; the -1
\* that ends it stands for one further write to any logical address.
Scenario(bs, b) ==
    [i \in 1..(2 * bs) |-> b * bs + (Ascending(bs) \o Shuffled(bs))[i]]
    \o <<-1>>

ScenarioInit ==
    /\ \E c \in ScenarioConfigs : Built(c[1], c[2], NumLogical)
    /\ \E b \in 0..(NumLogical - 1) : script = Scenario(BLOCK_SIZE, b)

\* The next write of the script.
ScriptedWrite ==
    /\ pc = "ready"
    /\ script # <<>>
    /\ Head(script) # -1
    /\ \E reuse \in Reuses(Head(script)) : WriteRequest(Head(script), reuse)
    /\ script' = Tail(script)

\* The write that follows the script.
FurtherWrite ==
    /\ pc = "ready"
    /\ script # <<>>
    /\ Head(script) = -1
    /\ \E la \in LogicalAddresses :
          \E reuse \in Reuses(la) : WriteRequest(la, reuse)
    /\ script' = Tail(script)

ScenarioNext == ScriptedWrite \/ FurtherWrite

ScenarioSpec == ScenarioInit /\ [][ScenarioNext]_vars

\* ------------------------------------------------- the constructor, stepwise
CtorInit ==
    /\ BLOCK_SIZE \in CtorBlockSizes
    /\ BAST_LOG_PAGE_LIMIT = 1
    /\ numBlocks \in 1..NumLogical
    /\ pc = "addressSize"
    /\ size = numBlocks * 4
    /\ addressShift = 0
    /\ addressSize = 0
    /\ data_list = EmptyMap
    /\ Fresh
    /\ script = <<>>

ctorfixed == <<BLOCK_SIZE, BAST_LOG_PAGE_LIMIT, numBlocks, log_map, flash,
               stats, event, host, trimmed, log_order, obs, script>>

\* for (size = SSD_SIZE * ... * 4; size > 0; addressSize++) size /= 2;
CtorAddressSize ==
    /\ pc = "addressSize"
    /\ IF size > 0
       THEN /\ size' = size \div 2
            /\ addressSize' = addressSize + 1
            /\ pc' = pc
       ELSE /\ size' = BLOCK_SIZE \div 2
            /\ addressSize' = addressSize
            /\ pc' = "addressShift"
    /\ UNCHANGED <<addressShift, data_list>>
    /\ UNCHANGED ctorfixed

\* for (size = BLOCK_SIZE/2; size > 0; addressShift++) size /= 2;
CtorAddressShift ==
    /\ pc = "addressShift"
    /\ IF size > 0
       THEN /\ size' = size \div 2
            /\ addressShift' = addressShift + 1
            /\ pc' = pc
       ELSE /\ size' = size
            /\ addressShift' = addressShift
            /\ pc' = "data_list"
    /\ UNCHANGED <<addressSize, data_list>>
    /\ UNCHANGED ctorfixed

\* data_list = new long[numBlocks], every entry -1; the constructor returns.
CtorDataList ==
    /\ pc = "data_list"
    /\ data_list' = [i \in Lbas |-> -1]
    /\ pc' = "ready"
    /\ UNCHANGED <<size, addressShift, addressSize>>
    /\ UNCHANGED ctorfixed

CtorNext == CtorAddressSize \/ CtorAddressShift \/ CtorDataList

CtorSpec == CtorInit /\ [][CtorNext]_vars

\* =================================================================== claims
\* The address a read of la resolves to in the current state.
ReadOf(la) == ReadAddress(State, la)

\* What a read of la returns in state s: <<-1>> (unmapped), or the payload of the
\* page it resolves to.
ReadResult(s, la) ==
    IF ReadAddress(s, la) = Unmapped THEN <<-1>>
    ELSE s.flash.data[ReadAddress(s, la)]

\* The logical addresses of logical block lba.
AddressesOf(lba) == {la \in LogicalAddresses : LbaOf(la) = lba}

\* The last request entered allocate_new_logblock with log_map at its limit.
AllocatedAtCapacity == obs.alloc /\ obs.pre_size >= BAST_LOG_PAGE_LIMIT

\* C1: log_map never holds more than BAST_LOG_PAGE_LIMIT entries, and an
\* allocation that finds it at the limit removes exactly one entry before it
\* inserts the new one.
C1_LogMapBound ==
    /\ Cardinality(DOMAIN log_map) <= BAST_LOG_PAGE_LIMIT
    /\ AllocatedAtCapacity => Cardinality(obs.removed) = 1

C1_Witness ==
    /\ AllocatedAtCapacity
    /\ Cardinality(DOMAIN log_map) = BAST_LOG_PAGE_LIMIT
    /\ LbaOf(obs.la) \in DOMAIN log_map

\* C2: an allocation that finds log_map at its limit removes the entry
\* that was inserted earliest.
C2_EvictsOldest == AllocatedAtCapacity => obs.removed = {obs.oldest}

\* C3: a logical address that was never written reads as the unmapped
\* sentinel.
C3_NeverWrittenUnmapped ==
    \A la \in LogicalAddresses : host[la] = 0 => ReadOf(la) = Unmapped

\* C4: right after write(A), read(A) resolves to the page the write was
\* issued to.
C4_WriteThenRead == obs.op = "write" => ReadOf(obs.la) = obs.wrote

\* C5: after a request that random-merged logical block B, every address
\* of B (other than the one the request itself wrote) reads as its last
\* written payload, or as the sentinel if it was never written.
C5_RandomMergeKeepsPages ==
    obs.merge_kind = "random" =>
        \A la \in AddressesOf(obs.merge_lba) \ {obs.la} :
            /\ host[la] = 0 => ReadOf(la) = Unmapped
            /\ (host[la] > 0 /\ la \notin trimmed) =>
                    ReadResult(State, la) = <<la, host[la]>>

\* The cost of the step from the current state to s: no page read, programmed
\* or erased.
NoPhysicalWork(s) ==
    /\ s.stats.numFTLRead = stats.numFTLRead
    /\ s.stats.numFTLWrite = stats.numFTLWrite
    /\ s.flash.state = flash.state
    /\ s.flash.data = flash.data
    /\ s.flash.pages_valid = flash.pages_valid

\* The log blocks with pages[i] = i for every i.
SequentialLogs == {lba \in DOMAIN log_map : isSequential(log_map[lba])}

\* C6: for a log block with slot[i] = i for every i, the switch gives every
\* address of the block the read result a random merge of the same state
\* gives it (whatever the triggering event), and does no physical work.
C6_SwitchEquivalence ==
    \A lba \in SequentialLogs :
        /\ is_sequential(State, lba).ret
        /\ NoPhysicalWork(is_sequential(State, lba))
        /\ FreeBlock(flash) # 0 =>
             \A ev \in LogicalAddresses : \A la \in AddressesOf(lba) :
                ReadResult(is_sequential(State, lba), la)
                    = ReadResult(random_merge(State, lba, ev), la)

C6_Witness ==
    \E lba \in SequentialLogs :
        /\ data_list[lba] # -1
        /\ FreeBlock(flash) # 0
        /\ ReadResult(is_sequential(State, lba), lba * BLOCK_SIZE)
                = <<lba * BLOCK_SIZE, host[lba * BLOCK_SIZE]>>

\* C7: once every address of a logical block has been trimmed (and not
\* written since), the block has neither a log_map nor a data_list entry and
\* all its addresses read as the sentinel.
C7_TrimAllReclaims ==
    \A lba \in Lbas :
        AddressesOf(lba) \subseteq trimmed =>
            /\ lba \notin DOMAIN log_map
            /\ data_list[lba] = -1
            /\ \A la \in AddressesOf(lba) : ReadOf(la) = Unmapped

\* --- the scenario
\* The number of writes the script has issued.
Written == 2 * BLOCK_SIZE + 1 - Len(script)

\* The logical block the scenario writes.
ScenarioBlock == LbaOf(event.la)

\* Only the host writes were issued: no read, and one write per request.
OnlyHostWrites ==
    /\ stats.numFTLRead = 0
    /\ stats.numFTLWrite = stats.numMemoryRead

\* C8 as stated: after the ascending pass the switch has been performed.
C8_SwitchAfterAscending ==
    Written = BLOCK_SIZE =>
        /\ stats.numLogMergeSwitch = 1
        /\ data_list[ScenarioBlock] # -1
        /\ OnlyHostWrites

\* C8, amended: after the ascending pass the log block is full with
\* slot[i] = i and nothing has been switched; the next write to the block
\* performs the switch: the counter is 1, data_list holds the former log
\* block, and only the host writes were issued.
C8_SwitchOnNextWrite ==
    /\ Written = BLOCK_SIZE =>
        /\ stats.numLogMergeSwitch = 0
        /\ data_list[ScenarioBlock] = -1
        /\ ScenarioBlock \in DOMAIN log_map
        /\ \A i \in Offsets : log_map[ScenarioBlock].pages[i] = i
        /\ OnlyHostWrites
    /\ Written = BLOCK_SIZE + 1 =>
        /\ stats.numLogMergeSwitch = 1
        /\ stats.numLogMergeFull = 0
        /\ obs.merge_kind = "switch"
        /\ data_list[ScenarioBlock] # -1
        /\ flash.data[data_list[ScenarioBlock] + BLOCK_SIZE - 1]
                = <<ScenarioBlock * BLOCK_SIZE + BLOCK_SIZE - 1, 1>>
        /\ OnlyHostWrites

C8_Witness ==
    /\ Written = BLOCK_SIZE + 1
    /\ BLOCK_SIZE = 4
    /\ stats.numLogMergeSwitch = 1

\* The write after the script allocated a log block.
AllocatedAfterScript == script = <<>> /\ obs.alloc

\* C9 as stated: with block size 4, the allocation that follows the script
\* random-merges the block with 3 read+write pairs and invalidates its data
\* block.
C9_ThreePairs ==
    [][(BLOCK_SIZE = 4 /\ script # <<>> /\ Head(script) = -1 /\ obs'.alloc) =>
        /\ obs'.merge_kind = "random"
        /\ obs'.merge_lba = ScenarioBlock
        /\ flash'.pool[BlockOf(data_list[ScenarioBlock])] = "INVALID"
        /\ obs'.pairs = 3]_vars

\* C9, amended: the allocation that follows the script random-merges the
\* block with BLOCK_SIZE read+write pairs (4 for block size 4), one for
\* every page offset, and invalidates its data block.
C9_BlockSizePairs ==
    [][(script # <<>> /\ Head(script) = -1 /\ obs'.alloc) =>
        /\ obs'.merge_kind = "random"
        /\ obs'.merge_lba = ScenarioBlock
        /\ stats'.numLogMergeFull = 1
        /\ flash'.pool[BlockOf(data_list[ScenarioBlock])] = "INVALID"
        /\ data_list'[ScenarioBlock] # data_list[ScenarioBlock]
        /\ obs'.pairs = BLOCK_SIZE
        /\ stats'.numFTLRead = stats.numFTLRead + BLOCK_SIZE
        /\ stats'.numFTLWrite = stats.numFTLWrite + BLOCK_SIZE + 1]_vars

C9_Witness ==
    /\ AllocatedAfterScript
    /\ BLOCK_SIZE = 4
    /\ obs.merge_kind = "random"
    /\ obs.pairs = 4

\* --- the constructor
\* C10: the constructor completes only for a block size that is a power of
\* two, and then addressShift is its logarithm.
C10_PowerOfTwoChecked ==
    pc = "ready" =>
        /\ IsPowerOfTwo(BLOCK_SIZE)
        /\ Pow2(addressShift) = BLOCK_SIZE

\* --- the write path
\* The logical block of the last request.
ObsBlock == LbaOf(obs.la)

\* A LogPageBlock at addr whose only set slot is that of page, set to 0.
FirstEntry(addr, page) ==
    [address |-> addr, pages |-> [i \in Offsets |-> IF i = page THEN 0 ELSE -1]]

\* C11: after a write that found its log block full, log_map holds a new
\* log block for the logical block whose only set slot is the written page's,
\* with value 0; the host write was issued to page 0 of that block, which is
\* an allocated block and not the block that the switch made the data block.
C11_FullWriteToNewBlock ==
    (obs.op = "write" /\ obs.full) =>
        /\ ObsBlock \in DOMAIN log_map
        /\ log_map[ObsBlock]
                = FirstEntry(log_map[ObsBlock].address, PageOf(obs.la))
        /\ obs.wrote = log_map[ObsBlock].address
        /\ flash.pool[BlockOf(obs.wrote)] = "USED"
        /\ obs.wrote # data_list[ObsBlock]

\* The last request was a write that took the append branch.
Appended == obs.op = "write" /\ ~obs.full /\ ObsBlock \in DOMAIN log_map

\* addr is the first page of log block lb that was empty before it was
\* programmed: the pages below it are programmed, those above it are empty.
WasNextFreePage(lb, addr) ==
    /\ BlockOf(addr) = BlockOf(lb.address)
    /\ flash.state[addr] = "VALID"
    /\ \A i \in Offsets :
        /\ lb.address + i < addr => flash.state[lb.address + i] # "EMPTY"
        /\ lb.address + i > addr => flash.state[lb.address + i] = "EMPTY"

SetSlots(lb) == {i \in Offsets : lb.pages[i] # -1}

\* C13: for every log block of log_map, the valid-page count that write
\* compares with BLOCK_SIZE equals the number of its slots that are set.
C13_ValidCountIsSetSlots ==
    \A lba \in DOMAIN log_map :
        get_num_valid(flash, log_map[lba].address)
            = Cardinality(SetSlots(log_map[lba]))

\* --- the switch
\* log_map of s without the entry of lba equals log_map without it.
OtherLogsKept(s, lba) ==
    /\ DOMAIN s.log_map = (DOMAIN log_map) \ {lba}
    /\ \A k \in DOMAIN s.log_map : s.log_map[k] = log_map[k]

\* What is_sequential, called in the current state for the log block of
\* lba, must have done when it returned s.
SwitchedOrUntouched(s, lba) ==
    /\ s.ret <=> \A i \in Offsets : log_map[lba].pages[i] = i
    /\ s.ret =>
        /\ data_list[lba] # -1 =>
                s.flash.pool[BlockOf(data_list[lba])] = "INVALID"
        /\ s.data_list = [data_list EXCEPT ![lba] = log_map[lba].address]
        /\ OtherLogsKept(s, lba)
        /\ s.stats.numLogMergeSwitch = stats.numLogMergeSwitch + 1
        /\ NoPhysicalWork(s)
    /\ ~s.ret =>
        /\ s.data_list = data_list
        /\ s.log_map = log_map
        /\ s.flash = flash

\* C14: is_sequential switches and returns true exactly when pages[i] = i
\* for every offset i; the switch invalidates the old data block, makes the
\* log block the data block, removes the log_map entry and issues no read or
\* write; when it returns false, data_list and log_map are as they were.
C14_SwitchExactlyWhenSequential ==
    \A lba \in DOMAIN log_map :
        SwitchedOrUntouched(is_sequential(State, lba), lba)

\* A sequential log block over an existing data block, which the switch
\* invalidates.
C14_Witness ==
    \E lba \in DOMAIN log_map :
        /\ data_list[lba] # -1
        /\ is_sequential(State, lba).ret
        /\ is_sequential(State, lba).data_list[lba] = log_map[lba].address
        /\ flash.pool[BlockOf(data_list[lba])] = "USED"
        /\ is_sequential(State, lba).flash.pool[BlockOf(data_list[lba])]
                = "INVALID"

\* --- the block map
\* Every page of the data block of b other than that of la is invalid.
LastValidPage(b, la) ==
    \A i \in Offsets \ {la % BLOCK_SIZE} :
        flash.state[data_list[b] + i] = "INVALID"

\* C15: a step changes data_list[b] to a block only by a switch or a random
\* merge of b, and to -1 only by a trim of a page of b that leaves its data
\* block with every page invalid.
C15_BlockMapFrame ==
    [][\A b \in Lbas :
        data_list'[b] # data_list[b] =>
            \/ /\ data_list'[b] # -1
               /\ obs'.merge_lba = b
               /\ obs'.merge_kind \in {"switch", "random"}
            \/ /\ data_list'[b] = -1
               /\ obs'.op = "trim"
               /\ LbaOf(obs'.la) = b
               /\ LastValidPage(b, obs'.la)]_vars

\* A trim has unmapped a data block that a merge had created.
C15_Witness ==
    /\ obs.op = "trim"
    /\ data_list[ObsBlock] = -1
    /\ stats.numLogMergeSwitch + stats.numLogMergeFull > 0
    /\ \A la \in AddressesOf(ObsBlock) : la \in trimmed

\* --- the life of a log block
\* The step allocated a LogPageBlock for logical block b.
Created(b) ==
    /\ b \in DOMAIN log_map'
    /\ b \notin DOMAIN log_map \/ (obs'.alloc /\ LbaOf(obs'.la) = b)

\* The step removed the LogPageBlock that log_map held for b.
Destroyed(b) ==
    /\ b \in DOMAIN log_map
    /\ b \notin DOMAIN log_map' \/ (obs'.alloc /\ LbaOf(obs'.la) = b)

\* The request of the step merged logical block b.
Merged(b) == obs'.merge_lba = b /\ obs'.merge_kind \in {"switch", "random"}

\* A log block is created only by a write to its logical block, which had
\* no log block or whose log block the write merged.
CreatedByWrite(b) ==
    Created(b) =>
        /\ obs'.op = "write"
        /\ LbaOf(obs'.la) = b
        /\ b \notin DOMAIN log_map \/ Merged(b)

\* The step is a trim of a page of b that is in the log block of b, every
\* other page of whose physical block is invalid.
TrimEmptiesLog(b) ==
    /\ obs'.op = "trim"
    /\ LbaOf(obs'.la) = b
    /\ b \in DOMAIN log_map
    /\ log_map[b].pages[PageOf(obs'.la)] # -1
    /\ \A i \in Offsets \ {log_map[b].pages[PageOf(obs'.la)]} :
            flash.state[log_map[b].address + i] = "INVALID"

\* C16 as stated: a log block is created only by a write to a logical
\* block without one, and removed exactly when its logical block is merged.
C16_DestroyedOnlyByMerge ==
    [][\A b \in Lbas :
        /\ CreatedByWrite(b)
        /\ Destroyed(b) <=> (b \in DOMAIN log_map /\ Merged(b))]_vars

\* C16, amended: a log block is removed exactly when its logical block is
\* merged or when a trim invalidates the last page of its physical block
\* that was not invalid.
C16_DestroyedByMergeOrTrim ==
    [][\A b \in Lbas :
        /\ CreatedByWrite(b)
        /\ Destroyed(b) <=>
            \/ b \in DOMAIN log_map /\ Merged(b)
            \/ TrimEmptiesLog(b)]_vars

\* A trim has removed the log block of a logical block that was written and
\* never merged.
C16_Witness ==
    /\ obs.op = "trim"
    /\ host[obs.la] > 0
    /\ stats.numLogMergeSwitch + stats.numLogMergeFull = 0
    /\ ObsBlock \notin DOMAIN log_map
    /\ data_list[ObsBlock] = -1

C18_TrimmedStaysUnmapped ==
    \A la \in trimmed : host[la] > 0 => ReadOf(la) = Unmapped

\* --- the blocks the maps refer to
\* The physical blocks log_map and data_list refer to, with the entry that
\* refers to them.
References ==
    {<<"log", lba, BlockOf(log_map[lba].address)>> : lba \in DOMAIN log_map}
    \cup {<<"data", lba, BlockOf(data_list[lba])>> :
                lba \in {b \in Lbas : data_list[b] # -1}}

\* C19: a physical block that log_map or data_list refers to is referred to
\* by one entry only and is an allocated block; a host write is issued to a
\* page of the log block that log_map holds for its logical block.
C19_ReferencedBlocksLive ==
    /\ \A r1, r2 \in References : r1[3] = r2[3] => r1 = r2
    /\ \A r \in References : flash.pool[r[3]] = "USED"
    /\ obs.op = "write" =>
        /\ ObsBlock \in DOMAIN log_map
        /\ BlockOf(obs.wrote) = BlockOf(log_map[ObsBlock].address)

\* --- read
\* C20: a read leaves log_map, data_list and the flash as they are; it
\* counts one memory read and one FTL read and sets the event's address.
C20_ReadChangesNothing ==
    [][obs'.op = "read" =>
        /\ log_map' = log_map
        /\ data_list' = data_list
        /\ flash' = flash
        /\ stats' = [stats EXCEPT !.numMemoryRead = @ + 1,
                                  !.numFTLRead = @ + 1]
        /\ event'.address = ReadOf(obs'.la)]_vars

\* A read of an address whose logical block has a log block and a data
\* block, and one of an address whose block has neither.
C20_Witness ==
    /\ obs.op = "read"
    /\ event.address # Unmapped
    /\ ObsBlock \in DOMAIN log_map
    /\ data_list[ObsBlock] # -1
    /\ \E b \in Lbas : b \notin DOMAIN log_map /\ data_list[b] = -1

====
